---------------------------- MODULE Spec2Model ----------------------------
(***************************************************************************)
(* A model of src/src/main.rs: the complex kernel (Complex::pow,           *)
(* Complex::stability), the colour mapper (hue_to_rgb) and the tile        *)
(* pipeline of main (scheduler loops, worker tasks, mpsc channel, receive  *)
(* loop, encoder).                                                         *)
(*                                                                         *)
(* Numbers.  The canvas dimensions and loop variables are u32; the model's *)
(* dimensions are far below 2^32 and no operation of the scheduler wraps.  *)
(* The program computes plane points in f64.  The model draws every        *)
(* complex input from the integer lattice, where the f64 operations the    *)
(* kernel performs (+, -, *, comparison) are exact, so that the integer    *)
(* results of the model are the results of the code.  hue_to_rgb is        *)
(* computed in exact rational arithmetic on an angle given as a multiple   *)
(* of pi.                                                                  *)
(***************************************************************************)
EXTENDS Integers, Sequences, FiniteSets, TLC

VARIABLES
  img_width,      \* main: img_width
  img_height,     \* main: img_height
  portion_size,   \* main: portion_size (the tile edge)
  mainPc,         \* position of the coordinating thread in main
  column,         \* outer loop variable of the scheduler
  row,            \* inner loop variable of the scheduler
  tasks,          \* the closures handed to pool.spawn_fifo, in spawn order
  chan,           \* messages sent on tx and not yet received on rx
  rxAlive,        \* the receiver rx has not been dropped
  image,          \* the canvas `image`
  blits,          \* history: how many times copy_from wrote each canvas pixel
  count,          \* main: count
  total,          \* main: total
  file,           \* the output file: "none", "empty" (created) or "encoded"
  proc,           \* the process: "running", "exited", "failed" or "aborted"
  kc,             \* kernel run: the complex argument
  kexp,           \* kernel run: the exponent
  kpow,           \* kernel run: result of pow, NotCalled before the call
  kstab           \* kernel run: result of stability, NotCalled before the call

pipeVars == <<img_width, img_height, portion_size, mainPc, column, row, tasks,
              chan, rxAlive, image, blits, count, total, file, proc>>
kernelVars == <<kc, kexp, kpow, kstab>>
vars == <<pipeVars, kernelVars>>

-----------------------------------------------------------------------------
(* Bounds of the model.                                                    *)

MaxWidth == 3       \* pipeline: canvas widths 1..MaxWidth
MaxHeight == 3      \* pipeline: canvas heights 1..MaxHeight
MaxEdge == 3        \* pipeline: tile edges 1..MaxEdge
MaxTasks == 4       \* pipeline: configurations spawning at most MaxTasks tasks
SchedMaxDim == 5    \* scheduler alone: canvas widths and heights 1..SchedMaxDim
SchedMaxEdge == 4   \* scheduler alone: tile edges 1..SchedMaxEdge
MaxCoord == 3       \* kernel: complex arguments with parts in -MaxCoord..MaxCoord
MaxExp == 3         \* kernel: exponents 0..MaxExp
PlaneStep == 1      \* pipeline: plane units between neighbouring pixels

-----------------------------------------------------------------------------
(* Option<T>                                                               *)

None == <<>>
Some(x) == <<x>>

\* the result variable of a call: empty before the call, <<value>> after it
NotCalled == <<>>
Returned(v) == <<v>>

-----------------------------------------------------------------------------
(* Complex kernel                                                          *)

new(re, im) == [re |-> re, im |-> im]

add(self, rhs) == new(self.re + rhs.re, self.im + rhs.im)

mul(self, rhs) ==
  LET re == self.re * rhs.re - self.im * rhs.im
      im == self.re * rhs.im + self.im * rhs.re
  IN new(re, im)

\* (0..exp).fold(init, |acc, _| acc * self)
RECURSIVE fold(_, _, _)
fold(acc, self, n) == IF n = 0 THEN acc ELSE fold(mul(acc, self), self, n - 1)

pow_from_self(self, exp) == fold(self, self, exp)

pow(self, exp) == fold(new(1, 0), self, exp)

MAX_ITER == 1000

escaped_late(num) == num.re * num.re + num.im * num.im >= 2 * 2 + 2

\* the escape test of stability: |num|^2 > 2.0 * 2.0
escaped(num) == num.re * num.re + num.im * num.im > 2 * 2

stability_body_next(self, st, i) ==
  IF st.ret # None THEN st
  ELSE LET num == add(pow(st.num, 2), self)
       IN [num |-> num, ret |-> IF escaped(num) THEN Some(i + 1) ELSE None]

\* One pass of the body of `for i in 0..MAX_ITER`; st.ret is Some(i) once the
\* loop has returned, and the passes after a return change nothing.
stability_body(self, st, i) ==
  IF st.ret # None THEN st
  ELSE LET num == add(pow(st.num, 2), self)
       IN [num |-> num, ret |-> IF escaped(num) THEN Some(i) ELSE None]

\* The passes lo, lo+1, .. hi-1 of the loop, in that order (split in halves to
\* keep the evaluation shallow).
RECURSIVE stability_for(_, _, _, _)
stability_for(self, st, lo, hi) ==
  IF st.ret # None \/ lo >= hi THEN st
  ELSE IF hi - lo = 1 THEN stability_body(self, st, lo)
  ELSE LET mid == lo + (hi - lo) \div 2
       IN stability_for(self, stability_for(self, st, lo, mid), mid, hi)

stability(self) ==
  stability_for(self, [num |-> new(0, 0), ret |-> None], 0, MAX_ITER).ret

-----------------------------------------------------------------------------
(* Colour mapper.  rad is the angle n * pi / d, given as [n |-> n, d |-> d]. *)
(* rad / third is 3n/d; x = 1 - |(3n/d mod 2) - 1|; x8 = (x * 255.0) as u8   *)
(* truncates.  The comparisons rad < third * k are 3n < k * d.  (In f64 the  *)
(* product x * 255.0 can round to just below an integer that the exact value *)
(* reaches; the model keeps the exact value.)                                *)

Rgb(r, g, b) == <<r, g, b>>

hue_to_rgb(rad) ==
  LET m == (3 * rad.n) % (2 * rad.d)
      xd == rad.d - (IF m >= rad.d THEN m - rad.d ELSE rad.d - m)
      x8 == (xd * 255) \div rad.d
  IN IF 3 * rad.n < rad.d THEN Rgb(255, x8, 0)
     ELSE IF 3 * rad.n < 2 * rad.d THEN Rgb(x8, 255, 0)
     ELSE IF 3 * rad.n < 3 * rad.d THEN Rgb(0, 255, x8)
     ELSE IF 3 * rad.n < 4 * rad.d THEN Rgb(0, x8, 255)
     ELSE Rgb(255, 0, x8)

-----------------------------------------------------------------------------
(* Images (ImageBuffer): width, height and the pixels px[<<x, y>>].          *)

Coords(width, height) == (0 .. width - 1) \X (0 .. height - 1)

\* ImageBuffer::new(width, height): every channel of every pixel is zero
ImageBuffer_new(width, height) ==
  [width |-> width, height |-> height,
   px |-> [p \in Coords(width, height) |-> Rgb(0, 0, 0)]]

\* GenericImage::copy_from, the bounds check
copy_from_fits(self, other, x, y) ==
  ~(self.width < other.width + x \/ self.height < other.height + y)

copy_from_no_offset(self, other, x, y) ==
  [self EXCEPT !.px =
     [p \in DOMAIN self.px |->
        IF p[1] < other.width /\ p[2] < other.height
        THEN other.px[<<p[1], p[2]>>] ELSE self.px[p]]]

copy_from_clear_rest(self, other, x, y) ==
  [self EXCEPT !.px =
     [p \in DOMAIN self.px |->
        IF /\ x <= p[1] /\ p[1] < x + other.width
           /\ y <= p[2] /\ p[2] < y + other.height
        THEN other.px[<<p[1] - x, p[2] - y>>] ELSE Rgb(0, 0, 0)]]

\* GenericImage::copy_from, the copy: put_pixel(i + x, k + y, other(i, k))
copy_from(self, other, x, y) ==
  [self EXCEPT !.px =
     [p \in DOMAIN self.px |->
        IF /\ x <= p[1] /\ p[1] < x + other.width
           /\ y <= p[2] /\ p[2] < y + other.height
        THEN other.px[<<p[1] - x, p[2] - y>>] ELSE self.px[p]]]

-----------------------------------------------------------------------------
(* Viewport.  main fixes top_left, viewport_width, viewport_height and zoom  *)
(* as f64 constants; the model keeps zoom and takes an anchor and an extent  *)
(* for which pixel t of n maps to the integer anchor + t * PlaneStep, so     *)
(* that (t / n) * extent / zoom is exact.                                    *)

zoom == 200
top_left == <<-2, -1>>
viewport_width == img_width * PlaneStep * zoom
viewport_height == img_height * PlaneStep * zoom

\* anchor + (t as f64 / n as f64) * extent / zoom
plane_coord(anchor, t, n, extent) == anchor + (t * extent) \div (n * zoom)

\* The plane points the pipeline's pixels map to, and stability on each of
\* them (evaluated once).
PlanePoints ==
  {new(top_left[1] + x * PlaneStep, top_left[2] + y * PlaneStep) :
     x \in 0 .. MaxWidth, y \in 0 .. MaxHeight}
stability_of == [c \in PlanePoints |-> stability(c)]

color_of_by_tile(x, y, start_horizontal, start_vertical) ==
  LET re == plane_coord(top_left[1], x + start_horizontal, img_width, viewport_width)
      im == plane_coord(top_left[2], y + start_vertical, img_height, viewport_height)
      st == stability_of[new(re, im)]
  IN IF st # None
     THEN hue_to_rgb([n |-> 2 * (st[1] + start_horizontal + start_vertical),
                      d |-> MAX_ITER])
     ELSE Rgb(0, 0, 0)

\* The closure given to ImageBuffer::from_fn: the colour of local pixel (x, y)
\* of the tile that starts at (start_horizontal, start_vertical).
color_of(x, y, start_horizontal, start_vertical) ==
  LET true_x == x + start_horizontal
      true_y == y + start_vertical
      re == plane_coord(top_left[1], true_x, img_width, viewport_width)
      im == plane_coord(top_left[2], true_y, img_height, viewport_height)
      num == new(re, im)
      st == stability_of[num]
  IN IF st # None THEN hue_to_rgb([n |-> 2 * st[1], d |-> MAX_ITER])
     ELSE Rgb(0, 0, 0)

\* ImageBuffer::from_fn(width, height, closure) of a tile
from_fn(t) ==
  LET width == t.end_horizontal - t.start_horizontal
      height == t.end_vertical - t.start_vertical
  IN [width |-> width, height |-> height,
      px |-> [p \in Coords(width, height) |->
                color_of(p[1], p[2], t.start_horizontal, t.start_vertical)]]

-----------------------------------------------------------------------------
(* Tile scheduler: the ranges and bounds of the two for loops.               *)

Min(a, b) == IF a < b THEN a ELSE b

last_index_over(n) == n \div portion_size + 1

\* 0..=(n / portion_size)
last_index(n) == n \div portion_size

start_of(i) == i * portion_size

end_of_unclipped(i, n) == (i + 1) * portion_size

\* n.min((i + 1) * portion_size)
end_of(i, n) == Min(n, (i + 1) * portion_size)

\* (img_height / portion_size + 1) * (img_width / portion_size + 1)
total_of_ceil(width, height, edge) ==
  ((height + edge - 1) \div edge) * ((width + edge - 1) \div edge)

total_of(width, height, edge) == (height \div edge + 1) * (width \div edge + 1)

NoPart == [width |-> 0, height |-> 0, px |-> <<>>]

-----------------------------------------------------------------------------
(* Initial states.  The pipeline starts in main before the pool is built,    *)
(* with the canvas allocated; the kernel variables hold one call's inputs.   *)

num_threads == 24 - 1

KernelIdle ==
  /\ kc = new(0, 0) /\ kexp = 0 /\ kpow = NotCalled /\ kstab = NotCalled

PipeInit(maxw, maxh, maxe) ==
  /\ img_width \in 1 .. maxw
  /\ img_height \in 1 .. maxh
  /\ portion_size \in 1 .. maxe
  /\ column = 0 /\ row = 0
  /\ tasks = <<>>
  /\ chan = <<>>
  /\ rxAlive = TRUE
  /\ image = ImageBuffer_new(img_width, img_height)
  /\ blits = [p \in Coords(img_width, img_height) |-> 0]
  /\ count = 0 /\ total = 0
  /\ file = "none"
  /\ proc = "running"

Init ==
  /\ PipeInit(MaxWidth, MaxHeight, MaxEdge)
  /\ total_of(img_width, img_height, portion_size) <= MaxTasks
  /\ mainPc = "build_pool"
  /\ KernelIdle

-----------------------------------------------------------------------------
(* The coordinating thread: main.                                            *)

\* a failed expect() on the main thread: the panic ends the process
MainPanics ==
  /\ mainPc' = "panicked" /\ proc' = "failed" /\ rxAlive' = FALSE

\* rayon::ThreadPoolBuilder::new().num_threads(24 - 1).build().expect(..)
BuildPool ==
  /\ proc = "running" /\ mainPc = "build_pool"
  /\ \/ mainPc' = "spawn" /\ UNCHANGED <<proc, rxAlive>>
     \/ MainPanics
  /\ UNCHANGED <<img_width, img_height, portion_size, column, row, tasks, chan,
                 image, blits, count, total, file, kernelVars>>

\* One pass of the inner loop body: tx.clone() and pool.spawn_fifo(closure),
\* then the step of the two for loops.
Spawn ==
  /\ proc = "running" /\ mainPc = "spawn"
  /\ LET start_horizontal == start_of(column)
         end_horizontal == end_of(column, img_width)
         start_vertical == start_of(row)
         end_vertical == end_of(row, img_height)
     IN tasks' = Append(tasks,
                   [start_horizontal |-> start_horizontal,
                    end_horizontal |-> end_horizontal,
                    start_vertical |-> start_vertical,
                    end_vertical |-> end_vertical,
                    pc |-> "queued", part |-> NoPart])
  /\ IF row < last_index(img_height)
     THEN row' = row + 1 /\ UNCHANGED <<column, mainPc>>
     ELSE IF column < last_index(img_width)
     THEN row' = 0 /\ column' = column + 1 /\ UNCHANGED mainPc
     ELSE mainPc' = "total" /\ UNCHANGED <<column, row>>
  /\ UNCHANGED <<img_width, img_height, portion_size, chan, rxAlive, image,
                 blits, count, total, file, proc, kernelVars>>

\* let total = ..; let mut count = 0;
SetTotal ==
  /\ proc = "running" /\ mainPc = "total"
  /\ total' = total_of(img_width, img_height, portion_size)
  /\ count' = 0
  /\ mainPc' = "recv"
  /\ UNCHANGED <<img_width, img_height, portion_size, column, row, tasks, chan,
                 rxAlive, image, blits, file, proc, kernelVars>>

\* history: the pixels a blit of `other` at (x, y) writes are counted
blits_after(other, x, y) ==
  [p \in DOMAIN blits |->
     IF /\ x <= p[1] /\ p[1] < x + other.width
        /\ y <= p[2] /\ p[2] < y + other.height
     THEN blits[p] + 1 ELSE blits[p]]

\* rx.recv_timeout(..) returns Ok(message): one pass of the while-let body
Recv ==
  /\ proc = "running" /\ mainPc = "recv"
  /\ chan # <<>>
  /\ LET start_horizontal == Head(chan)[1]
         start_vertical == Head(chan)[2]
         part == Head(chan)[3]
     IN /\ chan' = Tail(chan)
        /\ count' = count + 1
        /\ IF copy_from_fits(image, part, start_horizontal, start_vertical)
           THEN /\ image' = copy_from(image, part, start_horizontal, start_vertical)
                /\ blits' = blits_after(part, start_horizontal, start_vertical)
                /\ UNCHANGED <<mainPc, proc, rxAlive>>
           ELSE /\ MainPanics
                /\ UNCHANGED <<image, blits>>
  /\ UNCHANGED <<img_width, img_height, portion_size, column, row, tasks, total,
                 file, kernelVars>>

RecvTimeout_counted ==
  /\ proc = "running" /\ mainPc = "recv"
  /\ chan = <<>>
  /\ count = total
  /\ mainPc' = "create"
  /\ UNCHANGED <<img_width, img_height, portion_size, column, row, tasks, chan,
                 rxAlive, image, blits, count, total, file, proc, kernelVars>>

\* rx.recv_timeout(..) returns Err(Timeout): no message arrived for 5 seconds.
\* (Err(Disconnected) cannot occur: main holds tx until it returns.)
RecvTimeout ==
  /\ proc = "running" /\ mainPc = "recv"
  /\ chan = <<>>
  /\ mainPc' = "create"
  /\ UNCHANGED <<img_width, img_height, portion_size, column, row, tasks, chan,
                 rxAlive, image, blits, count, total, file, proc, kernelVars>>

\* std::fs::File::create(..).expect("create img file")
CreateFile ==
  /\ proc = "running" /\ mainPc = "create"
  /\ \/ file' = "empty" /\ mainPc' = "encode" /\ UNCHANGED <<proc, rxAlive>>
     \/ MainPanics /\ UNCHANGED file
  /\ UNCHANGED <<img_width, img_height, portion_size, column, row, tasks, chan,
                 image, blits, count, total, kernelVars>>

\* encoder.encode(image.as_raw(), ..).expect("encode image")
Encode ==
  /\ proc = "running" /\ mainPc = "encode"
  /\ \/ file' = "encoded" /\ mainPc' = "saved" /\ UNCHANGED <<proc, rxAlive>>
     \/ MainPanics /\ UNCHANGED file
  /\ UNCHANGED <<img_width, img_height, portion_size, column, row, tasks, chan,
                 image, blits, count, total, kernelVars>>

\* println!("saved!") and the end of main's scope: rx and tx are dropped
DropChannel ==
  /\ proc = "running" /\ mainPc = "saved"
  /\ rxAlive' = FALSE
  /\ mainPc' = "returned"
  /\ UNCHANGED <<img_width, img_height, portion_size, column, row, tasks, chan,
                 image, blits, count, total, file, proc, kernelVars>>

\* main returns: the process exits, whatever the pool's threads are doing
Exit ==
  /\ proc = "running" /\ mainPc = "returned"
  /\ proc' = "exited"
  /\ UNCHANGED <<img_width, img_height, portion_size, mainPc, column, row, tasks,
                 chan, rxAlive, image, blits, count, total, file, kernelVars>>

-----------------------------------------------------------------------------
(* The worker pool: the closure given to spawn_fifo, for task t.             *)

Busy == {t \in DOMAIN tasks : tasks[t].pc = "computed"}

Compute_into_canvas(t) ==
  /\ proc = "running"
  /\ tasks[t].pc = "queued"
  /\ Cardinality(Busy) < num_threads
  /\ tasks' = [tasks EXCEPT ![t].part = from_fn(tasks[t]), ![t].pc = "computed"]
  /\ image' = IF copy_from_fits(image, from_fn(tasks[t]), tasks[t].start_horizontal,
                                tasks[t].start_vertical)
              THEN copy_from(image, from_fn(tasks[t]), tasks[t].start_horizontal,
                             tasks[t].start_vertical)
              ELSE image
  /\ UNCHANGED <<img_width, img_height, portion_size, mainPc, column, row, chan,
                 rxAlive, blits, count, total, file, proc, kernelVars>>

\* ImageBuffer::from_fn(..) and println!("Done computing ..")
Compute(t) ==
  /\ proc = "running"
  /\ tasks[t].pc = "queued"
  /\ Cardinality(Busy) < num_threads
  /\ tasks' = [tasks EXCEPT ![t].part = from_fn(tasks[t]), ![t].pc = "computed"]
  /\ UNCHANGED <<img_width, img_height, portion_size, mainPc, column, row, chan,
                 rxAlive, image, blits, count, total, file, proc, kernelVars>>

Send_twice(t) ==
  /\ proc = "running"
  /\ tasks[t].pc = "computed"
  /\ rxAlive
  /\ chan' = chan \o << <<tasks[t].start_horizontal, tasks[t].start_vertical,
                          tasks[t].part>>,
                        <<tasks[t].start_horizontal, tasks[t].start_vertical,
                          tasks[t].part>> >>
  /\ tasks' = [tasks EXCEPT ![t].pc = "sent"]
  /\ UNCHANGED <<img_width, img_height, portion_size, mainPc, column, row,
                 rxAlive, image, blits, count, total, file, proc, kernelVars>>

Send_bounded(t) ==
  /\ proc = "running"
  /\ tasks[t].pc = "computed"
  /\ rxAlive
  /\ Len(chan) < 1
  /\ chan' = Append(chan, <<tasks[t].start_horizontal, tasks[t].start_vertical,
                            tasks[t].part>>)
  /\ tasks' = [tasks EXCEPT ![t].pc = "sent"]
  /\ UNCHANGED <<img_width, img_height, portion_size, mainPc, column, row,
                 rxAlive, image, blits, count, total, file, proc, kernelVars>>

\* tx.send((start_horizontal, start_vertical, part)).expect("send image part"):
\* the send fails only when rx is dropped, and the panic of a pool thread
\* aborts the process (the pool has no panic handler)
Send(t) ==
  /\ proc = "running"
  /\ tasks[t].pc = "computed"
  /\ IF rxAlive
     THEN /\ chan' = Append(chan, <<tasks[t].start_horizontal,
                                    tasks[t].start_vertical, tasks[t].part>>)
          /\ tasks' = [tasks EXCEPT ![t].pc = "sent"]
          /\ UNCHANGED proc
     ELSE /\ tasks' = [tasks EXCEPT ![t].pc = "panicked"]
          /\ proc' = "aborted"
          /\ UNCHANGED chan
  /\ UNCHANGED <<img_width, img_height, portion_size, mainPc, column, row,
                 rxAlive, image, blits, count, total, file, kernelVars>>

Worker == \E t \in DOMAIN tasks : Compute(t) \/ Send(t)

Main ==
  \/ BuildPool \/ Spawn \/ SetTotal \/ Recv \/ RecvTimeout
  \/ CreateFile \/ Encode \/ DropChannel \/ Exit

Next == Main \/ Worker

Spec == Init /\ [][Next]_vars

\* The main thread is scheduled and recv_timeout returns within 5 seconds, so
\* main keeps taking steps; nothing is assumed about the pool's threads (a
\* worker may stall for ever).
SpecLive == Init /\ [][Next]_vars /\ WF_vars(Main)

-----------------------------------------------------------------------------
(* The scheduler alone: the two for loops and the total, on larger canvases. *)

InitSched ==
  /\ PipeInit(SchedMaxDim, SchedMaxDim, SchedMaxEdge)
  /\ mainPc = "spawn"
  /\ KernelIdle

NextSched == Spawn \/ SetTotal

SpecSched == InitSched /\ [][NextSched]_vars

-----------------------------------------------------------------------------
(* The kernel alone: one call of pow and one call of stability on an         *)
(* argument of the integer lattice.                                          *)

InitKernel ==
  /\ PipeInit(1, 1, 1)
  /\ mainPc = "build_pool"
  /\ kc \in {new(re, im) : re \in -MaxCoord .. MaxCoord, im \in -MaxCoord .. MaxCoord}
  /\ kexp \in 0 .. MaxExp
  /\ kpow = NotCalled
  /\ kstab = NotCalled

CallPow ==
  /\ kpow = NotCalled
  /\ kpow' = Returned(pow(kc, kexp))
  /\ UNCHANGED <<pipeVars, kc, kexp, kstab>>

CallStability ==
  /\ kstab = NotCalled
  /\ kstab' = Returned(stability(kc))
  /\ UNCHANGED <<pipeVars, kc, kexp, kpow>>

NextKernel == CallPow \/ CallStability

SpecKernel == InitKernel /\ [][NextKernel]_vars

-----------------------------------------------------------------------------
(* Properties.                                                               *)

\* main has left the receive loop without a panic
AfterLoop == {"create", "encode", "saved", "returned"}

\* the scheduler's loops have ended
Dispatched == mainPc \notin {"build_pool", "spawn"}

\* the canvas pixels of a tile: [start_x, end_x) x [start_y, end_y)
TileRect(t) ==
  (t.start_horizontal .. t.end_horizontal - 1)
    \X (t.start_vertical .. t.end_vertical - 1)

NonEmptyTiles == {i \in DOMAIN tasks : TileRect(tasks[i]) # {}}

Ceil(n, d) == (n + d - 1) \div d

SqMag(c) == c.re * c.re + c.im * c.im

\* the canvas a configuration determines: pixel p has the colour of its plane point
ExpectedPx ==
  [p \in Coords(img_width, img_height) |-> color_of(p[1], p[2], 0, 0)]

\* C1: when the aggregator has left its receive loop and reports completion,
\* every canvas pixel has been written by exactly one blit.
C1_CompleteAtCompletion ==
  mainPc \in AfterLoop => \A p \in DOMAIN blits : blits[p] = 1

\* C2: the receive loop ends exactly when the number of tiles received equals
\* the number dispatched: main is past the loop only with all tiles received,
\* and it is at a receive only while tiles are outstanding.
C2_ExitOnCount ==
  /\ mainPc \in AfterLoop => count = Len(tasks)
  /\ mainPc = "recv" => count < Len(tasks)

\* C3: the tile rectangles the scheduler generates are pairwise disjoint, and
\* once the loops have ended their union is the canvas rectangle.
C3_Partition ==
  /\ \A i, j \in DOMAIN tasks :
       i # j => TileRect(tasks[i]) \cap TileRect(tasks[j]) = {}
  /\ Dispatched =>
       UNION {TileRect(tasks[i]) : i \in DOMAIN tasks} = Coords(img_width, img_height)

C3_Witness ==
  /\ mainPc = "recv"
  /\ Cardinality(NonEmptyTiles) >= 4
  /\ \E i \in NonEmptyTiles :
       tasks[i].end_horizontal - tasks[i].start_horizontal < portion_size
  /\ \E i \in NonEmptyTiles :
       tasks[i].end_vertical - tasks[i].start_vertical < portion_size

\* C4: the number of tasks dispatched is ceil(width / edge) * ceil(height / edge);
\* a 4x4 canvas with edge 2 dispatches exactly 4 tiles, each 2x2.
C4_TaskCount ==
  Dispatched =>
    /\ Len(tasks) = Ceil(img_width, portion_size) * Ceil(img_height, portion_size)
    /\ (img_width = 4 /\ img_height = 4 /\ portion_size = 2) =>
         \A i \in DOMAIN tasks :
           /\ tasks[i].end_horizontal - tasks[i].start_horizontal = 2
           /\ tasks[i].end_vertical - tasks[i].start_vertical = 2

SentTasks == {t \in DOMAIN tasks : tasks[t].pc = "sent"}

\* C5: a task publishes one message, once: the messages ever sent (those in
\* the channel and those received) are exactly one for each task that has
\* completed its send, each message is the (origin, buffer) of such a task and
\* no two messages in the channel come from the same task, so the messages
\* sent never exceed the tasks dispatched; and only the receive loop of main
\* takes messages from the channel.
C5_OneMessagePerTask ==
  /\ [](/\ Len(chan) + count = Cardinality(SentTasks)
        /\ Cardinality(SentTasks) <= Len(tasks)
        /\ \A k \in DOMAIN chan :
             \E t \in SentTasks : /\ chan[k][1] = tasks[t].start_horizontal
                                  /\ chan[k][2] = tasks[t].start_vertical
                                  /\ chan[k][3] = tasks[t].part
        /\ \A k, l \in DOMAIN chan :
             k # l => <<chan[k][1], chan[k][2]>> # <<chan[l][1], chan[l][2]>>)
  /\ [][chan' # chan /\ Len(chan') <= Len(chan) =>
          /\ mainPc = "recv"
          /\ chan' = Tail(chan)
          /\ count' = count + 1]_vars

C5_Witness ==
  /\ Len(tasks) >= 2
  /\ \A t \in DOMAIN tasks : tasks[t].pc = "sent"
  /\ count >= 1
  /\ chan # <<>>

\* C6: a step of a worker task leaves the canvas and every other task's buffer
\* unchanged; the canvas changes only in a blit step of the receive loop.
C6_WorkerFrame ==
  [][/\ \A t \in DOMAIN tasks :
          tasks'[t] # tasks[t] =>
            /\ image' = image
            /\ \A u \in DOMAIN tasks \ {t} : tasks'[u] = tasks[u]
     /\ image' # image =>
          /\ mainPc = "recv"
          /\ chan # <<>>
          /\ count' = count + 1]_vars

C6_Witness ==
  /\ \E t \in NonEmptyTiles : tasks[t].pc = "computed"
  /\ \E t \in NonEmptyTiles : tasks[t].pc = "sent"
  /\ \E p \in DOMAIN blits : blits[p] = 1
  /\ \E p \in DOMAIN blits : blits[p] = 0

\* C7: once every dispatched tile has been composited the canvas is the one the
\* configuration determines, whatever the order of execution and arrival.
C7_CanvasDeterminate ==
  (tasks # <<>> /\ count = Len(tasks)) => image.px = ExpectedPx

C7_Witness ==
  /\ mainPc = "recv"
  /\ count = Len(tasks)
  /\ Cardinality(NonEmptyTiles) >= 2
  /\ Cardinality({image.px[p] : p \in DOMAIN image.px}) >= 3
  /\ chan = <<>>

\* C8: a run that ends in a fatal error leaves no output file.
C8_NoArtifactOnFailure ==
  proc \in {"failed", "aborted"} => file = "none"

\* C9: stability(c) is Some(0) for every c with re^2 + im^2 > 4.
C9_EscapeAtZero ==
  (kstab # NotCalled /\ SqMag(kc) > 4) => kstab = Returned(Some(0))

C9_Witness ==
  /\ kstab = Returned(Some(0))
  /\ SqMag(kc) = 5

\* C10: pow(a, 0) = (1, 0), pow(a, 1) = a, pow(a, 2) = mul(a, a),
\* pow(a, 3) = mul(mul(a, a), a), and pow(a, n + 1) = mul(pow(a, n), a).
C10_PowIsRepeatedMul ==
  kpow # NotCalled =>
    /\ kexp = 0 => kpow = Returned(new(1, 0))
    /\ kexp = 1 => kpow = Returned(kc)
    /\ kexp = 2 => kpow = Returned(mul(kc, kc))
    /\ kexp = 3 => kpow = Returned(mul(mul(kc, kc), kc))
    /\ kexp >= 1 => kpow = Returned(mul(pow(kc, kexp - 1), kc))

C10_Witness ==
  /\ kpow # NotCalled
  /\ kexp = 3
  /\ kc.re # 0 /\ kc.im # 0
  /\ kpow # Returned(kc)

-----------------------------------------------------------------------------
(* Properties of the colour rule, of task completion and of tile bounds.     *)

\* the plane point of canvas pixel (x, y)
PlanePointOf(x, y) ==
  new(plane_coord(top_left[1], x, img_width, viewport_width),
      plane_coord(top_left[2], y, img_height, viewport_height))

\* the colour rule: black for bounded, hue_to_rgb((k / MAX_ITER) * 2 pi) for
\* escaped at iteration k
ColourOfResult(st) ==
  IF st = None THEN Rgb(0, 0, 0) ELSE hue_to_rgb([n |-> 2 * st[1], d |-> MAX_ITER])

ComputedTasks == {t \in DOMAIN tasks : tasks[t].pc \in {"computed", "sent"}}

\* the pixels stored in tile buffers: <<task, local pixel>>
StoredPixels ==
  {tp \in ComputedTasks \X Coords(img_width, img_height) :
     tp[2] \in DOMAIN tasks[tp[1]].part.px}

ResultOfStored(tp) ==
  stability_of[PlanePointOf(tp[2][1] + tasks[tp[1]].start_horizontal,
                            tp[2][2] + tasks[tp[1]].start_vertical)]

\* C11: the colour stored for a pixel is the colour rule applied to the pixel's
\* stability result, in tile buffers and on the canvas, so that two stored
\* pixels with the same stability result have the same colour whatever their
\* tiles are.
C11_ColourOfResultOnly ==
  /\ \A tp \in StoredPixels :
       tasks[tp[1]].part.px[tp[2]] = ColourOfResult(ResultOfStored(tp))
  /\ LET stored == {<<ResultOfStored(tp), tasks[tp[1]].part.px[tp[2]]>> :
                       tp \in StoredPixels}
     IN \A a, b \in stored : a[1] = b[1] => a[2] = b[2]
  /\ \A p \in DOMAIN blits :
       blits[p] >= 1 =>
         image.px[p] = ColourOfResult(stability_of[PlanePointOf(p[1], p[2])])

C11_Witness ==
  /\ \E tp, uq \in StoredPixels :
       /\ tp[1] # uq[1]
       /\ ResultOfStored(tp) = ResultOfStored(uq)
       /\ ResultOfStored(tp) # None
       /\ tasks[uq[1]].start_vertical > 0
  /\ \E tp \in StoredPixels : ResultOfStored(tp) = None
  /\ \E tp \in StoredPixels : ResultOfStored(tp) \notin {None, Some(0)}

\* C12: every dispatched task runs to completion and publishes its tile: no
\* task's send fails on a dropped receiver, and when the run has ended every
\* task has published.
C12_EveryTaskPublishes ==
  /\ \A t \in DOMAIN tasks : tasks[t].pc # "panicked"
  /\ proc = "exited" => \A t \in DOMAIN tasks : tasks[t].pc = "sent"

\* C13: every dispatched tile has 0 <= start <= end <= dimension on both axes,
\* every buffer has the tile's extent, and every message in the channel passes
\* the bounds check of copy_from, so the receive loop never panics.
C13_TilesInsideCanvas ==
  /\ [](/\ \A t \in DOMAIN tasks :
             /\ 0 <= tasks[t].start_horizontal
             /\ tasks[t].start_horizontal <= tasks[t].end_horizontal
             /\ tasks[t].end_horizontal <= img_width
             /\ 0 <= tasks[t].start_vertical
             /\ tasks[t].start_vertical <= tasks[t].end_vertical
             /\ tasks[t].end_vertical <= img_height
        /\ \A t \in ComputedTasks :
             /\ tasks[t].part.width =
                  tasks[t].end_horizontal - tasks[t].start_horizontal
             /\ tasks[t].part.height =
                  tasks[t].end_vertical - tasks[t].start_vertical
        /\ \A k \in DOMAIN chan :
             copy_from_fits(image, chan[k][3], chan[k][1], chan[k][2]))
  /\ [][mainPc = "recv" /\ chan # <<>> => mainPc' = "recv"]_vars

C13_Witness ==
  /\ count = Len(tasks) /\ count >= 4
  /\ \E t \in DOMAIN tasks :
       /\ tasks[t].start_horizontal = img_width
       /\ tasks[t].end_horizontal = img_width
  /\ \E t \in NonEmptyTiles :
       /\ tasks[t].start_vertical > 0
       /\ tasks[t].end_vertical - tasks[t].start_vertical < portion_size

\* tasks whose part is built and whose tx.send(..) has not been called yet
ReadyToSend == {t \in DOMAIN tasks : tasks[t].pc = "computed"}

\* C14: publishing a tile never blocks. While the process runs, a task that
\* holds a finished part can always take its send step, whatever the channel
\* holds and wherever main is; main in its receive loop can always take a
\* step (a message or the timeout); and some step of the pipeline is always
\* possible until the process has ended (no deadlock).
C14_SendNeverBlocks ==
  /\ \A t \in ReadyToSend : proc = "running" => ENABLED Send(t)
  /\ (proc = "running" /\ mainPc = "recv") => ENABLED (Recv \/ RecvTimeout)
  /\ proc = "running" => ENABLED Next

\* a task is about to publish while two messages are already pending and main
\* is not receiving (it is still dispatching)
C14_Witness ==
  /\ proc = "running"
  /\ mainPc = "spawn"
  /\ Len(chan) >= 2
  /\ ReadyToSend # {}


\* the canvas position of pixel p of a tile placed at (sx, sy)
Placed(sx, sy, p) == <<sx + p[1], sy + p[2]>>

\* C15: one pass of the receive loop that composites the message
\* (sx, sy, part) leaves the canvas with pixel (sx + x, sy + y) equal to pixel
\* (x, y) of part for every pixel of part (a plain copy, whatever the canvas
\* held), with every other pixel as it was, and with its dimensions unchanged.
C15_BlitIsPlainCopy ==
  [][(mainPc = "recv" /\ chan # <<>> /\ count' = count + 1) =>
       LET sx == Head(chan)[1]
           sy == Head(chan)[2]
           part == Head(chan)[3]
           rect == {Placed(sx, sy, p) : p \in DOMAIN part.px}
       IN /\ mainPc' = "recv"
          /\ rect \subseteq DOMAIN image'.px
          /\ \A p \in DOMAIN part.px : image'.px[Placed(sx, sy, p)] = part.px[p]
          /\ \A q \in DOMAIN image.px \ rect : image'.px[q] = image.px[q]
          /\ DOMAIN image'.px = DOMAIN image.px
          /\ image'.width = image.width /\ image'.height = image.height]_vars

\* two tiles have been composited, the second at a non-zero origin, and each
\* has left a coloured pixel on the canvas: the pixel of the first has
\* survived the compositing of the second
C15_Witness ==
  /\ count >= 2
  /\ \E p, q \in DOMAIN image.px :
       /\ \/ p[1] \div portion_size < q[1] \div portion_size
          \/ p[2] \div portion_size < q[2] \div portion_size
       /\ blits[p] = 1 /\ blits[q] = 1
       /\ image.px[p] # Rgb(0, 0, 0) /\ image.px[q] # Rgb(0, 0, 0)


\* The orbit of c: z_0 = 0, z_{k+1} = z_k^2 + c.  OrbitFrom(c, z, n) is the
\* sequence of the n iterates that follow z; an iterate outside the escape
\* radius is repeated instead of squared, so the sequence is the orbit up to
\* and including its first escape and stays outside the radius afterwards.
OrbitStep(c, z) ==
  IF SqMag(z) > 4 THEN z
  ELSE new(z.re * z.re - z.im * z.im + c.re, 2 * z.re * z.im + c.im)

RECURSIVE OrbitFrom(_, _, _)
OrbitFrom(c, z, n) ==
  IF n = 0 THEN <<>>
  ELSE IF n = 1 THEN <<OrbitStep(c, z)>>
  ELSE LET head == OrbitFrom(c, z, n \div 2)
       IN head \o OrbitFrom(c, head[Len(head)], n - n \div 2)

KernelPoints ==
  {new(re, im) : re \in -MaxCoord .. MaxCoord, im \in -MaxCoord .. MaxCoord}

\* orbit_of[c][k + 1] is z_{k+1}, for k in 0 .. MAX_ITER - 1
orbit_of == [c \in KernelPoints |-> OrbitFrom(c, new(0, 0), MAX_ITER)]

\* the iterations k in [0, MAX_ITER) with |z_{k+1}|^2 > 4
EscapesOf(c) == {k \in 0 .. MAX_ITER - 1 : SqMag(orbit_of[c][k + 1]) > 4}

\* C16: stability(c) returns Some(k) exactly for the least k in [0, MAX_ITER)
\* with |z_{k+1}|^2 > 4 (z_0 = 0, z_{k+1} = z_k^2 + c), and None exactly when
\* there is no such k; a returned index is below MAX_ITER; stability((0, 0))
\* is None.
C16_LeastEscapeIndex ==
  kstab # NotCalled =>
    LET ret == kstab[1]
        esc == EscapesOf(kc)
    IN /\ ret = None <=> esc = {}
       /\ ret # None => /\ ret[1] \in esc
                        /\ \A k \in esc : ret[1] <= k
                        /\ ret[1] >= 0 /\ ret[1] < MAX_ITER
       /\ kc = new(0, 0) => ret = None

\* stability has returned an index that is not the first iteration: the
\* iterates before it stayed inside the escape radius
C16_Witness ==
  /\ kstab # NotCalled
  /\ kstab[1] # None
  /\ kstab[1][1] >= 2
  /\ SqMag(orbit_of[kc][1]) <= 4
  /\ SqMag(orbit_of[kc][kstab[1][1] + 1]) > 4


\* main is past `let total = ..; let mut count = 0;`
TotalKnown == mainPc \in {"recv"} \cup AfterLoop

\* C17: once main has computed total, total is
\* (img_height / portion_size + 1) * (img_width / portion_size + 1) and equals
\* the number of tasks the loops have spawned; and the counter of received
\* messages satisfies 0 <= count <= total in every state.
C17_TotalIsTaskCount ==
  /\ TotalKnown =>
       /\ total = (img_height \div portion_size + 1)
                    * (img_width \div portion_size + 1)
       /\ total = Len(tasks)
  /\ 0 <= count /\ count <= total

\* every message of a canvas whose width is a multiple of the tile edge has
\* been received: the counter has reached total, empty tiles included
C17_Witness ==
  /\ mainPc = "recv"
  /\ img_width % portion_size = 0
  /\ total = 4 /\ Len(tasks) = 4
  /\ count = total


\* the senders of the channel: main's tx lives until main's scope ends, the
\* clone moved into a task's closure lives until the closure has ended
TxAlive == mainPc \notin {"returned", "panicked"}

Clones == {t \in DOMAIN tasks : tasks[t].pc \in {"queued", "computed"}}

\* what recv_timeout reports as Err(Disconnected): no message and no sender
Disconnected == chan = <<>> /\ ~TxAlive /\ Clones = {}

\* the encoding stage has been entered: File::create has been attempted
EncoderInvoked == file # "none" \/ (mainPc = "panicked" /\ total > 0)

\* C18: while main is in the receive loop the channel is not disconnected
\* (main's own tx is alive), even when every task has sent and dropped its
\* clone; main leaves the loop only by the timeout step, taken with no
\* message pending; and, the workers' progress being left open, main always
\* leaves the loop and then enters the encoding stage.
C18_LoopExitsByTimeout ==
  /\ [](mainPc = "recv" => TxAlive /\ ~Disconnected)
  /\ [][(mainPc = "recv" /\ mainPc' # "recv") =>
          /\ chan = <<>>
          /\ mainPc' = "create" /\ proc' = "running"
          /\ rxAlive /\ rxAlive'
          /\ UNCHANGED <<count, image, tasks>>]_vars
  /\ (mainPc = "recv") ~> (mainPc = "create")
  /\ (mainPc = "create") ~> EncoderInvoked

\* main has left the loop and reached the encoder while a worker has not
\* started its task and another has sent its tile
C18_Witness ==
  /\ mainPc = "encode"
  /\ count >= 1 /\ count < total
  /\ \E t \in DOMAIN tasks : tasks[t].pc = "queued"


=============================================================================
